---------------------------- MODULE Spec2Model ----------------------------
(***************************************************************************)
(* A model of src/console.py: the sports-league console client.  main()    *)
(* loads the match list, list_players() loads the teams and prints the     *)
(* roster, handle_queries() builds the two lookup indexes and answers the  *)
(* `stats?` / `versus?` lines of standard input.                           *)
(*                                                                         *)
(* Text is modelled as a sequence of one-character strings, so that        *)
(* strip, split, shlex.split, isdigit, int, str and the "+d" format are    *)
(* computed character by character the way Python computes them.  The     *)
(* one-character string "sup2" stands for U+00B2 (SUPERSCRIPT TWO), a      *)
(* character str.isdigit accepts and int() rejects.  The alphabet has no   *)
(* backslash and no single quote.                                          *)
(***************************************************************************)
EXTENDS Integers, Sequences, FiniteSets, TLC

VARIABLES
    token,           \* args.token or LKSH_TOKEN is set (main, line 119)
    server_matches,  \* what GET /matches answers
    server_teams,    \* what GET /teams answers
    server_players,  \* what GET /players/{id} answers: a record or NotFound
    pc,              \* the position of the process
    matches,         \* main's `matches`
    teams,           \* main's `teams` / list_players' `teams`
    player_ids,      \* list_players' `player_ids` not yet visited
    names,           \* list_players' `names`
    team_map,        \* handle_queries' `team_map`
    player_team,     \* handle_queries' `player_team`
    stdout,          \* the lines printed to sys.stdout
    stderr,          \* the notices printed to sys.stderr
    stdin_len,       \* the number of lines of sys.stdin
    nread,           \* lines of sys.stdin consumed so far
    requests,        \* the resources requested with fetch_json so far
    ret              \* the last value returned by compute_stats

vars == <<token, stdin_len, server_matches, server_teams, server_players, pc, matches,
          teams, player_ids, names, team_map, player_team, stdout, stderr,
          nread, requests, ret>>

-----------------------------------------------------------------------------
(* Bounds of the model *)

MaxMatches == 2
MaxTeams == 2
MaxLines == 2
MaxScore == 1
MaxStatMatches == 2

-----------------------------------------------------------------------------
(* Text *)

Range(s) == {s[i] : i \in DOMAIN s}

\* The characters of the model in code-point order.
CodeOrder ==
    <<" ", "\"", "+", "-", "0", "1", "2", "3", "4", "5", "6", "7", "8", "9",
      "?", "A", "B", "C", "Z", "a", "b", "e", "r", "s", "t", "u", "v", "x",
      "sup2">>

Ord(c) == CHOOSE i \in DOMAIN CodeOrder : CodeOrder[i] = c

Whitespace == {" "}

DecimalDigits == <<"0", "1", "2", "3", "4", "5", "6", "7", "8", "9">>

\* str.__lt__: code-point lexicographic order.
RECURSIVE StrLess(_, _)
StrLess(s, t) ==
    IF t = <<>> THEN FALSE
    ELSE IF s = <<>> THEN TRUE
    ELSE IF s[1] = t[1] THEN StrLess(Tail(s), Tail(t))
    ELSE Ord(s[1]) < Ord(t[1])

RECURSIVE lstrip(_)
lstrip(s) ==
    IF s # <<>> /\ s[1] \in Whitespace THEN lstrip(Tail(s)) ELSE s

RECURSIVE rstrip(_)
rstrip(s) ==
    IF s # <<>> /\ s[Len(s)] \in Whitespace
    THEN rstrip(SubSeq(s, 1, Len(s) - 1)) ELSE s

\* str.strip()
strip(s) == rstrip(lstrip(s))

\* str.startswith(p)
startswith(s, p) == Len(s) >= Len(p) /\ SubSeq(s, 1, Len(p)) = p

\* str.split(): the maximal runs of non-whitespace characters.
RECURSIVE SplitFrom(_, _, _)
SplitFrom(s, tok, acc) ==
    IF s = <<>> THEN (IF tok = <<>> THEN acc ELSE Append(acc, tok))
    ELSE IF s[1] \in Whitespace
         THEN SplitFrom(Tail(s), <<>>, IF tok = <<>> THEN acc ELSE Append(acc, tok))
         ELSE SplitFrom(Tail(s), Append(tok, s[1]), acc)

split(s) == SplitFrom(s, <<>>, <<>>)

\* str.isdigit(): true of a non-empty string of digit characters; U+00B2 is
\* a digit character (Numeric_Type=Digit) though not a decimal one.
isdigit(s) == s # <<>> /\ \A i \in DOMAIN s : s[i] \in Range(DecimalDigits) \cup {"sup2"}

\* int(s) raises ValueError unless s is a string of decimal digits.
IntRaises(s) == s = <<>> \/ \E i \in DOMAIN s : s[i] \notin Range(DecimalDigits)

DigitValue(c) == (CHOOSE i \in DOMAIN DecimalDigits : DecimalDigits[i] = c) - 1

RECURSIVE int(_)
int(s) ==
    IF s = <<>> THEN 0
    ELSE 10 * int(SubSeq(s, 1, Len(s) - 1)) + DigitValue(s[Len(s)])

\* str(n) for n >= 0
RECURSIVE str(_)
str(n) ==
    IF n < 10 THEN <<DecimalDigits[n + 1]>>
    ELSE str(n \div 10) \o <<DecimalDigits[(n % 10) + 1]>>

\* FormatSigned with the "d" format: no sign on a number that is not negative
FormatUnsigned(d) == IF d >= 0 THEN str(d) ELSE <<"-">> \o str(-d)

\* f"{d:+d}"
FormatSigned(d) == IF d >= 0 THEN <<"+">> \o str(d) ELSE <<"-">> \o str(-d)

\* shlex.split(s): posix mode, whitespace_split.  state is " " between
\* tokens, "a" inside a word, "\"" inside double quotes.  The result is
\* [err |-> TRUE] for ValueError("No closing quotation").
RECURSIVE ShlexFrom(_, _, _, _)
ShlexFrom(s, state, tok, acc) ==
    IF s = <<>> THEN
        IF state = "\"" THEN [err |-> TRUE, toks |-> <<>>]
        ELSE IF state = "a" THEN [err |-> FALSE, toks |-> Append(acc, tok)]
        ELSE [err |-> FALSE, toks |-> acc]
    ELSE IF state = " " THEN
        IF s[1] \in Whitespace THEN ShlexFrom(Tail(s), " ", <<>>, acc)
        ELSE IF s[1] = "\"" THEN ShlexFrom(Tail(s), "\"", <<>>, acc)
        ELSE ShlexFrom(Tail(s), "a", <<s[1]>>, acc)
    ELSE IF state = "a" THEN
        IF s[1] \in Whitespace THEN ShlexFrom(Tail(s), " ", <<>>, Append(acc, tok))
        ELSE IF s[1] = "\"" THEN ShlexFrom(Tail(s), "\"", tok, acc)
        ELSE ShlexFrom(Tail(s), "a", Append(tok, s[1]), acc)
    ELSE
        IF s[1] = "\"" THEN ShlexFrom(Tail(s), "a", tok, acc)
        ELSE ShlexFrom(Tail(s), "\"", Append(tok, s[1]), acc)

shlex_split(s) == ShlexFrom(s, " ", <<>>, <<>>)

-----------------------------------------------------------------------------
(* The records and the pure functions *)

\* dict(): the empty mapping
EmptyDict == [k \in {} |-> 0]

\* Put that keeps the value of a key already present: first write wins
PutFirstWins(d, k, v) == d @@ (k :> v)

\* d[k] = v
Put(d, k, v) == (k :> v) @@ d

Match(t1, t2, s1, s2) ==
    [team1 |-> t1, team2 |-> t2, team1_score |-> s1, team2_score |-> s2]

Team(i, n, ps) == [id |-> i, name |-> n, players |-> ps]

Player(n, s) == [found |-> TRUE, name |-> n, surname |-> s]

\* GET /players/{id} answers 404: raise_for_status raises requests.HTTPError
NotFound == [found |-> FALSE, name |-> <<>>, surname |-> <<>>]

\* StatsLoop with `gf >= ga` for `gf > ga`: a draw counts as a win
RECURSIVE StatsLoopDrawWins(_, _, _)
StatsLoopDrawWins(ms, team_id, acc) ==
    IF ms = <<>> THEN acc
    ELSE LET m == ms[1]
             gf == IF m.team1 = team_id THEN m.team1_score ELSE m.team2_score
             ga == IF m.team1 = team_id THEN m.team2_score ELSE m.team1_score
         IN  IF m.team1 = team_id \/ m.team2 = team_id
             THEN StatsLoopDrawWins(Tail(ms), team_id,
                    [wins |-> acc.wins + (IF gf >= ga THEN 1 ELSE 0),
                     losses |-> acc.losses + (IF gf < ga THEN 1 ELSE 0),
                     goals_for |-> acc.goals_for + gf,
                     goals_against |-> acc.goals_against + ga])
             ELSE StatsLoopDrawWins(Tail(ms), team_id, acc)

\* compute_stats, the loop body over the matches left to visit
RECURSIVE StatsLoop(_, _, _)
StatsLoop(ms, team_id, acc) ==
    IF ms = <<>> THEN acc
    ELSE LET m == ms[1]
             t1 == m.team1
             t2 == m.team2
             s1 == m.team1_score
             s2 == m.team2_score
             gf == IF t1 = team_id THEN s1 ELSE s2
             ga == IF t1 = team_id THEN s2 ELSE s1
         IN  IF t1 = team_id \/ t2 = team_id
             THEN StatsLoop(Tail(ms), team_id,
                    [wins |-> acc.wins + (IF gf > ga THEN 1 ELSE 0),
                     losses |-> acc.losses + (IF gf < ga THEN 1 ELSE 0),
                     goals_for |-> acc.goals_for + gf,
                     goals_against |-> acc.goals_against + ga])
             ELSE StatsLoop(Tail(ms), team_id, acc)

\* compute_stats(matches, team_id) = (wins, losses, diff)
compute_stats(ms, team_id) ==
    LET r == StatsLoop(ms, team_id,
                 [wins |-> 0, losses |-> 0, goals_for |-> 0, goals_against |-> 0])
    IN  <<r.wins, r.losses, r.goals_for - r.goals_against>>

\* VersusMatch without the swapped case
VersusMatchOneWay(m, t1, t2) == m.team1 = t1 /\ m.team2 = t2

\* the head-to-head test of one match
VersusMatch(m, t1, t2) ==
    \/ m.team1 = t1 /\ m.team2 = t2
    \/ m.team1 = t2 /\ m.team2 = t1

\* the head-to-head count `cnt`
RECURSIVE VersusCount(_, _, _)
VersusCount(ms, t1, t2) ==
    IF ms = <<>> THEN 0
    ELSE (IF VersusMatch(ms[1], t1, t2) THEN 1 ELSE 0) + VersusCount(Tail(ms), t1, t2)

\* ' '.join(parts)
RECURSIVE join(_)
join(parts) ==
    IF parts = <<>> THEN <<>>
    ELSE IF Len(parts) = 1 THEN parts[1]
    ELSE parts[1] \o <<" ">> \o join(Tail(parts))

NonEmpty(p) == p # <<>>

\* FullName that joins the two parts without dropping an empty one
FullNameKeepEmpty(pl) == join(<<strip(pl.name), strip(pl.surname)>>)

\* the full name of a fetched player record
FullName(pl) == join(SelectSeq(<<strip(pl.name), strip(pl.surname)>>, NonEmpty))

\* sorted(S) for a set of strings
RECURSIVE sorted(_)
sorted(S) ==
    IF S = {} THEN <<>>
    ELSE LET least == CHOOSE x \in S : \A y \in S \ {x} : StrLess(x, y)
         IN  <<least>> \o sorted(S \ {least})

\* the player ids collected from the teams
RECURSIVE PlayerIdSet(_)
PlayerIdSet(ts) ==
    IF ts = <<>> THEN {} ELSE Range(ts[1].players) \cup PlayerIdSet(Tail(ts))

\* team_map = {t['name']: t['id'] for t in teams}
RECURSIVE TeamMap(_, _)
TeamMap(ts, d) ==
    IF ts = <<>> THEN d ELSE TeamMap(Tail(ts), Put(d, ts[1].name, ts[1].id))

\* for pid in t.get('players', []): player_team[pid] = t['id']
RECURSIVE PutPlayers(_, _, _)
PutPlayers(ps, tid, d) ==
    IF ps = <<>> THEN d ELSE PutPlayers(Tail(ps), tid, Put(d, ps[1], tid))

\* for t in teams: ...
RECURSIVE PlayerTeam(_, _)
PlayerTeam(ts, d) ==
    IF ts = <<>> THEN d
    ELSE PlayerTeam(Tail(ts), PutPlayers(ts[1].players, ts[1].id, d))

-----------------------------------------------------------------------------
(* The inputs of the model *)

SeqUpTo(S, n) == UNION {[1..k -> S] : k \in 0..n}

PlayerIds == {10, 11, 12}

NameAB == <<"A", " ", "B">>
NameC == <<"C">>

\* Two teams share a name, two teams share an id, player 11 is listed thrice.
TeamPool ==
    {Team(1, NameAB, <<10, 11>>), Team(2, NameAB, <<11>>), Team(2, NameC, <<11, 12>>)}

MatchPool == {Match(1, 2, 3, 1), Match(2, 1, 2, 2), Match(1, 1, 1, 2)}

\* Every match between teams 1 and 2 with scores up to MaxScore.
AllMatches ==
    {Match(t1, t2, s1, s2) : t1 \in 1..2, t2 \in 1..2, s1 \in 0..MaxScore, s2 \in 0..MaxScore}

PlayerPool ==
    {NotFound,
     Player(<<"a">>, <<"b">>),
     Player(<<" ", "a">>, <<"b", " ">>),
     Player(<<>>, <<" ">>),
     Player(<<"b">>, <<>>),
     Player(<<" ">>, <<"a">>)}

\* Players 10 and 11 have the same full name, player 12 does not exist.
PlayersFixture ==
    (10 :> Player(<<"a">>, <<"b">>)) @@ (11 :> Player(<<" ", "a">>, <<"b", " ">>))
    @@ (12 :> NotFound)

\* Every player exists; 10 and 12 have an empty part in their names.
PlayersAllFound ==
    (10 :> Player(<<"b">>, <<>>)) @@ (11 :> Player(<<"a">>, <<"b">>))
    @@ (12 :> Player(<<" ">>, <<"a">>))

STATS == <<"s", "t", "a", "t", "s", "?">>
VERSUS == <<"v", "e", "r", "s", "u", "s", "?">>

Lines ==
    {<<" ">>,
     <<"x", "?">>,
     <<" ">> \o STATS \o <<" ", "\"", "A", " ", "B", "\"", " ">>,
     STATS \o <<"C", " ", "x">>,
     STATS \o <<" ", "C", " ", "\"", "A">>,
     STATS,
     VERSUS \o <<" ", "1", "0", " ", "1", "1">>,
     VERSUS \o <<"1", "1", " ", " ", "1", "2">>,
     VERSUS \o <<" ", "1", "0">>,
     VERSUS \o <<" ", "1", "0", " ", "x">>,
     VERSUS \o <<" ", " ", "sup2", " ", " ", "1", " ">>}

-----------------------------------------------------------------------------
(* main and list_players *)

InitWith(MS, TS, PS, LS) ==
    /\ token \in BOOLEAN
    /\ stdin_len \in LS
    /\ server_matches \in MS
    /\ server_teams \in TS
    /\ server_players \in PS
    /\ pc = "main"
    /\ matches = <<>>
    /\ teams = <<>>
    /\ player_ids = {}
    /\ names = <<>>
    /\ team_map = EmptyDict
    /\ player_team = EmptyDict
    /\ stdout = <<>>
    /\ stderr = <<>>
    /\ nread = 0
    /\ requests = {}
    /\ ret = <<>>

\* The whole run: any sequence of at most MaxLines input lines.
Init ==
    InitWith({<<>>, <<Match(1, 2, 3, 1), Match(2, 1, 2, 2)>>},
             SeqUpTo(TeamPool, MaxTeams), {PlayersFixture}, 0..MaxLines)

\* sys.exit(1) after a notice on stderr
Exit1(msg) ==
    /\ stderr' = Append(stderr, msg)
    /\ pc' = "exit1"

\* main: no token
NoToken ==
    /\ pc = "main"
    /\ ~token
    /\ Exit1("Error: Authorization token not provided")
    /\ UNCHANGED <<token, stdin_len, server_matches, server_teams, server_players, matches,
                   teams, player_ids, names, team_map, player_team, stdout,
                   nread, requests, ret>>

\* main: matches = fetch_json(.../matches)
FetchMatchesOk ==
    /\ pc = "main"
    /\ token
    /\ requests' = requests \cup {<<"matches", 0>>}
    /\ matches' = server_matches
    /\ pc' = "list_players"
    /\ UNCHANGED <<token, stdin_len, server_matches, server_teams, server_players, teams,
                   player_ids, names, team_map, player_team, stdout, stderr,
                   nread, ret>>

\* FetchMatchesFail without the sys.exit(1): main goes on to list_players
FetchMatchesFailGoesOn ==
    /\ pc = "main"
    /\ token
    /\ requests' = requests \cup {<<"matches", 0>>}
    /\ stderr' = Append(stderr, "Failed to fetch matches")
    /\ pc' = "list_players"
    /\ UNCHANGED <<token, stdin_len, server_matches, server_teams, server_players, matches,
                   teams, player_ids, names, team_map, player_team, stdout,
                   nread, ret>>

\* main: fetch_json(.../matches) raises, whatever the exception
FetchMatchesFail ==
    /\ pc = "main"
    /\ token
    /\ requests' = requests \cup {<<"matches", 0>>}
    /\ Exit1("Failed to fetch matches")
    /\ UNCHANGED <<token, stdin_len, server_matches, server_teams, server_players, matches,
                   teams, player_ids, names, team_map, player_team, stdout,
                   nread, ret>>

\* list_players: teams = fetch_json(.../teams); player_ids collected
FetchTeamsOk ==
    /\ pc = "list_players"
    /\ requests' = requests \cup {<<"teams", 0>>}
    /\ teams' = server_teams
    /\ player_ids' = PlayerIdSet(server_teams)
    /\ names' = <<>>
    /\ pc' = "fetch_players"
    /\ UNCHANGED <<token, stdin_len, server_matches, server_teams, server_players, matches,
                   team_map, player_team, stdout, stderr, nread, ret>>

\* list_players: fetch_json(.../teams) raises; main catches Exception
FetchTeamsFail ==
    /\ pc = "list_players"
    /\ requests' = requests \cup {<<"teams", 0>>}
    /\ Exit1("Failed to list players")
    /\ UNCHANGED <<token, stdin_len, server_matches, server_teams, server_players, matches,
                   teams, player_ids, names, team_map, player_team, stdout,
                   nread, ret>>

\* list_players: one pass of `for pid in player_ids`, the record is fetched
FetchPlayerOk(pid) ==
    /\ pc = "fetch_players"
    /\ pid \in player_ids
    /\ server_players[pid].found
    /\ requests' = requests \cup {<<"players", pid>>}
    /\ player_ids' = player_ids \ {pid}
    /\ names' = LET full == FullName(server_players[pid])
                IN  IF full # <<>> THEN Append(names, full) ELSE names
    /\ UNCHANGED <<token, stdin_len, server_matches, server_teams, server_players, pc,
                   matches, teams, team_map, player_team, stdout, stderr,
                   nread, ret>>

\* list_players: the fetch raises requests.HTTPError: continue
FetchPlayerHTTPError(pid) ==
    /\ pc = "fetch_players"
    /\ pid \in player_ids
    /\ ~server_players[pid].found
    /\ requests' = requests \cup {<<"players", pid>>}
    /\ player_ids' = player_ids \ {pid}
    /\ UNCHANGED <<token, stdin_len, server_matches, server_teams, server_players, pc,
                   matches, teams, names, team_map, player_team, stdout,
                   stderr, nread, ret>>

\* list_players: requests.get raises a transport error (ConnectionError,
\* Timeout), which is no HTTPError: it leaves list_players and main's
\* `except Exception` reports it and exits
FetchPlayerTransportError(pid) ==
    /\ pc = "fetch_players"
    /\ pid \in player_ids
    /\ requests' = requests \cup {<<"players", pid>>}
    /\ Exit1("Failed to list players")
    /\ UNCHANGED <<token, stdin_len, server_matches, server_teams, server_players, matches,
                   teams, player_ids, names, team_map, player_team, stdout,
                   nread, ret>>

\* list_players: for name in sorted(set(names)): print(name); return teams
PrintNames ==
    /\ pc = "fetch_players"
    /\ player_ids = {}
    /\ stdout' = stdout \o sorted(Range(names))
    /\ names' = <<>>
    /\ pc' = "handle_queries"
    /\ UNCHANGED <<token, stdin_len, server_matches, server_teams, server_players,
                   matches, teams, player_ids, team_map, player_team, stderr,
                   nread, requests, ret>>

-----------------------------------------------------------------------------
(* handle_queries *)

\* handle_queries: team_map and player_team are built from the teams
BuildIndexes ==
    /\ pc = "handle_queries"
    /\ team_map' = TeamMap(teams, EmptyDict)
    /\ player_team' = PlayerTeam(teams, EmptyDict)
    /\ pc' = "read_line"
    /\ UNCHANGED <<token, stdin_len, server_matches, server_teams, server_players,
                   matches, teams, player_ids, names, stdout, stderr, nread,
                   requests, ret>>

IsBlank(line) == strip(line) = <<>>
IsStats(line) == ~IsBlank(line) /\ startswith(strip(line), STATS)
IsVersus(line) == ~IsBlank(line) /\ ~IsStats(line) /\ startswith(strip(line), VERSUS)

\* The input lines by the branch of handle_queries that takes them.
BlankLines == {line \in Lines : IsBlank(line)}
StatsLines == {line \in Lines : IsStats(line)}
VersusLines == {line \in Lines : IsVersus(line)}
OtherLines == Lines \ (BlankLines \cup StatsLines \cup VersusLines)

\* rest = line[len('stats?'):].strip() ; shlex.split(rest)
StatsSplit(line) ==
    LET s == strip(line)
    IN  shlex_split(strip(SubSeq(s, Len(STATS) + 1, Len(s))))

\* shlex.split(rest)[0] neither raises ValueError nor IndexError
StatsHasName(line) == ~StatsSplit(line).err /\ StatsSplit(line).toks # <<>>

\* a name is found and team_map.get(name) is not None
StatsKnown(line, tmap) ==
    StatsHasName(line) /\ StatsSplit(line).toks[1] \in DOMAIN tmap

ZeroStats == <<"0", " ", "0", " ", "0">>

\* the line a `stats?` query prints
StatsOutput(line, tmap, ms) ==
    IF ~StatsKnown(line, tmap) THEN ZeroStats
    ELSE LET r == compute_stats(ms, tmap[StatsSplit(line).toks[1]])
         IN  str(r[1]) \o <<" ">> \o str(r[2]) \o <<" ">> \o FormatSigned(r[3])

\* handle_queries: a blank line: continue
Blank(line) ==
    /\ pc = "read_line"
    /\ nread < stdin_len
    /\ IsBlank(line)
    /\ nread' = nread + 1
    /\ UNCHANGED <<token, stdin_len, server_matches, server_teams, server_players, pc,
                   matches, teams, player_ids, names, team_map, player_team,
                   stdout, stderr, requests, ret>>

\* handle_queries: a `stats?` line
StatsQuery(line) ==
    /\ pc = "read_line"
    /\ nread < stdin_len
    /\ IsStats(line)
    /\ nread' = nread + 1
    /\ stdout' = Append(stdout, StatsOutput(line, team_map, matches))
    /\ ret' = IF StatsKnown(line, team_map)
              THEN LET tid == team_map[StatsSplit(line).toks[1]]
                   IN  <<tid, compute_stats(matches, tid)>>
              ELSE ret
    /\ UNCHANGED <<token, stdin_len, server_matches, server_teams, server_players, pc,
                   matches, teams, player_ids, names, team_map, player_team,
                   stderr, requests>>

\* fetch_json(.../players/{pid}) does not raise HTTPError
Found(pid) == pid \in DOMAIN server_players /\ server_players[pid].found

\* parts = line[len('versus?'):].strip().split()
VersusParts(line) ==
    LET s == strip(line)
    IN  split(strip(SubSeq(s, Len(VERSUS) + 1, Len(s))))

VersusShapeOk(line) ==
    LET parts == VersusParts(line)
    IN  Len(parts) = 2 /\ \A i \in DOMAIN parts : isdigit(parts[i])

Printed(out, reqs) == [kind |-> "print", out |-> out, reqs |-> reqs]
Raised(exc, reqs) == [kind |-> exc, out |-> <<>>, reqs |-> reqs]

\* What a `versus?` line does: the line it prints, or the exception it
\* raises, and the player ids it requests.  tr1 and tr2 say
\* whether the first and the second request fail in transport.
VersusOutcome(line, tr1, tr2) ==
    LET parts == VersusParts(line)
    IN  IF ~VersusShapeOk(line) THEN Printed(<<"0">>, {})
        ELSE IF IntRaises(parts[1]) \/ IntRaises(parts[2]) THEN Raised("ValueError", {})
        ELSE LET p1 == int(parts[1])
                 p2 == int(parts[2])
             IN  IF tr1 THEN Raised("ConnectionError", {p1})
                 ELSE IF ~Found(p1) THEN Printed(<<"0">>, {p1})
                 ELSE IF tr2 THEN Raised("ConnectionError", {p1, p2})
                 ELSE IF ~Found(p2) THEN Printed(<<"0">>, {p1, p2})
                 ELSE IF p1 \notin DOMAIN player_team \/ p2 \notin DOMAIN player_team
                      THEN Printed(<<"0">>, {p1, p2})
                 ELSE Printed(str(VersusCount(matches, player_team[p1], player_team[p2])),
                              {p1, p2})

\* handle_queries: a `versus?` line that prints its answer
VersusQuery(line, tr1, tr2) ==
    /\ pc = "read_line"
    /\ nread < stdin_len
    /\ IsVersus(line)
    /\ LET o == VersusOutcome(line, tr1, tr2)
       IN  /\ o.kind = "print"
           /\ stdout' = Append(stdout, o.out)
           /\ requests' = requests \cup {<<"players", p>> : p \in o.reqs}
    /\ nread' = nread + 1
    /\ UNCHANGED <<token, stdin_len, server_matches, server_teams, server_players, pc,
                   matches, teams, player_ids, names, team_map, player_team,
                   stderr, ret>>

\* An exception leaves handle_queries: nothing catches it, the interpreter
\* prints the traceback and exits with status 1.
Uncaught(exc) ==
    /\ stderr' = Append(stderr, "Traceback: " \o exc)
    /\ pc' = "crashed"

\* handle_queries: a `versus?` line, one of whose requests fails in
\* transport: requests.get raises ConnectionError, which is no HTTPError
VersusTransportError(line, tr1, tr2) ==
    /\ pc = "read_line"
    /\ nread < stdin_len
    /\ IsVersus(line)
    /\ LET o == VersusOutcome(line, tr1, tr2)
       IN  /\ o.kind = "ConnectionError"
           /\ requests' = requests \cup {<<"players", p>> : p \in o.reqs}
           /\ Uncaught(o.kind)
    /\ nread' = nread + 1
    /\ UNCHANGED <<token, stdin_len, server_matches, server_teams, server_players,
                   matches, teams, player_ids, names, team_map, player_team,
                   stdout, ret>>

\* handle_queries: a `versus?` line with a token that isdigit accepts and
\* int rejects: map(int, parts) raises ValueError
VersusValueError(line) ==
    /\ pc = "read_line"
    /\ nread < stdin_len
    /\ IsVersus(line)
    /\ LET o == VersusOutcome(line, FALSE, FALSE)
       IN  /\ o.kind = "ValueError"
           /\ Uncaught(o.kind)
    /\ nread' = nread + 1
    /\ UNCHANGED <<token, stdin_len, server_matches, server_teams, server_players,
                   matches, teams, player_ids, names, team_map, player_team,
                   stdout, requests, ret>>

\* handle_queries: any other line
Unrecognized(line) ==
    /\ pc = "read_line"
    /\ nread < stdin_len
    /\ ~IsBlank(line) /\ ~IsStats(line) /\ ~IsVersus(line)
    /\ nread' = nread + 1
    /\ stderr' = Append(stderr, "Unrecognized query")
    /\ UNCHANGED <<token, stdin_len, server_matches, server_teams, server_players, pc,
                   matches, teams, player_ids, names, team_map, player_team,
                   stdout, requests, ret>>

\* sys.stdin is exhausted: handle_queries and main return
Eof ==
    /\ pc = "read_line"
    /\ nread = stdin_len
    /\ pc' = "exit0"
    /\ UNCHANGED <<token, stdin_len, server_matches, server_teams, server_players,
                   matches, teams, player_ids, names, team_map, player_team,
                   stdout, stderr, nread, requests, ret>>

Next ==
    \/ NoToken
    \/ FetchMatchesOk
    \/ FetchMatchesFail
    \/ FetchTeamsOk
    \/ FetchTeamsFail
    \/ \E pid \in PlayerIds : FetchPlayerOk(pid)
    \/ \E pid \in PlayerIds : FetchPlayerHTTPError(pid)
    \/ \E pid \in PlayerIds : FetchPlayerTransportError(pid)
    \/ PrintNames
    \/ BuildIndexes
    \/ \E line \in BlankLines : Blank(line)
    \/ \E line \in StatsLines : StatsQuery(line)
    \/ \E line \in VersusLines, tr1 \in BOOLEAN, tr2 \in BOOLEAN : VersusQuery(line, tr1, tr2)
    \/ \E line \in VersusLines, tr1 \in BOOLEAN, tr2 \in BOOLEAN :
          VersusTransportError(line, tr1, tr2)
    \/ \E line \in VersusLines : VersusValueError(line)
    \/ \E line \in OtherLines : Unrecognized(line)
    \/ Eof

Spec == Init /\ [][Next]_vars

\* The runs that answer one input line, over every team list and match list
\* of the bounds.
InitQuery ==
    InitWith(SeqUpTo(MatchPool, MaxMatches), SeqUpTo(TeamPool, MaxTeams),
             {PlayersFixture, PlayersAllFound}, {1})

SpecQuery == InitQuery /\ [][Next]_vars

\* The runs of the start-up alone: standard input is empty.
InitStartup ==
    InitWith({<<>>, <<Match(1, 2, 3, 1)>>}, SeqUpTo(TeamPool, MaxTeams),
             [PlayerIds -> PlayerPool], {0})

NextStartup ==
    \/ NoToken
    \/ FetchMatchesOk
    \/ FetchMatchesFail
    \/ FetchTeamsOk
    \/ FetchTeamsFail
    \/ \E pid \in PlayerIds : FetchPlayerOk(pid)
    \/ \E pid \in PlayerIds : FetchPlayerHTTPError(pid)
    \/ \E pid \in PlayerIds : FetchPlayerTransportError(pid)
    \/ PrintNames
    \/ BuildIndexes
    \/ Eof

SpecStartup == InitStartup /\ [][NextStartup]_vars

-----------------------------------------------------------------------------
(* compute_stats on its own *)

StatTeamIds == 1..3

InitStats ==
    /\ token = TRUE
    /\ stdin_len = 0
    /\ server_matches = <<>>
    /\ server_teams = <<>>
    /\ server_players = PlayersFixture
    /\ pc = "compute_stats"
    /\ matches \in SeqUpTo(AllMatches, MaxStatMatches)
    /\ teams = <<>>
    /\ player_ids = {}
    /\ names = <<>>
    /\ team_map = EmptyDict
    /\ player_team = EmptyDict
    /\ stdout = <<>>
    /\ stderr = <<>>
    /\ nread = 0
    /\ requests = {}
    /\ ret = <<>>

\* w, l, d = compute_stats(matches, tid)
CallComputeStats(tid) ==
    /\ pc = "compute_stats"
    /\ ret' = <<tid, compute_stats(matches, tid)>>
    /\ pc' = "returned"
    /\ UNCHANGED <<token, stdin_len, server_matches, server_teams, server_players,
                   matches, teams, player_ids, names, team_map, player_team,
                   stdout, stderr, nread, requests>>

NextStats == \E tid \in StatTeamIds : CallComputeStats(tid)

SpecStats == InitStats /\ [][NextStats]_vars

-----------------------------------------------------------------------------
(* The claims *)

Involves(m, T) == m.team1 = T \/ m.team2 = T
OwnScore(m, T) == IF m.team1 = T THEN m.team1_score ELSE m.team2_score
OppScore(m, T) == IF m.team1 = T THEN m.team2_score ELSE m.team1_score

RECURSIVE SumOver(_, _, _)
SumOver(I, ms, T) ==
    IF I = {} THEN 0
    ELSE LET i == CHOOSE x \in I : TRUE
         IN  OwnScore(ms[i], T) - OppScore(ms[i], T) + SumOver(I \ {i}, ms, T)

InvolvedIn(ms, T) == {i \in DOMAIN ms : Involves(ms[i], T)}

\* C1: compute_stats(matches, T) returns the number of matches involving T
\* that T won, the number it lost, and the sum of (own score - opponent
\* score) over the matches involving T, each such match counted once (also
\* when team1 = team2 = T); so wins + losses is at most the number of matches
\* involving T, and the result is (0, 0, 0) when no match involves T.
C1_ComputeStats ==
    pc = "returned" =>
        LET T == ret[1]
            r == ret[2]
            I == InvolvedIn(matches, T)
        IN  /\ r[1] = Cardinality({i \in I : OwnScore(matches[i], T) > OppScore(matches[i], T)})
            /\ r[2] = Cardinality({i \in I : OwnScore(matches[i], T) < OppScore(matches[i], T)})
            /\ r[3] = SumOver(I, matches, T)
            /\ r[1] + r[2] <= Cardinality(I)
            /\ (I = {} => r = <<0, 0, 0>>)

\* C1 witness: a win in a match of T against itself, then a draw
C1_Witness ==
    /\ pc = "returned"
    /\ Len(matches) = 2
    /\ ret[2] = <<1, 0, 1>>
    /\ matches[1].team1 = ret[1] /\ matches[1].team2 = ret[1]
    /\ matches[2].team1_score = matches[2].team2_score
    /\ Involves(matches[2], ret[1])

Wins(ms, T) ==
    Cardinality({i \in InvolvedIn(ms, T) : OwnScore(ms[i], T) > OppScore(ms[i], T)})
Losses(ms, T) ==
    Cardinality({i \in InvolvedIn(ms, T) : OwnScore(ms[i], T) < OppScore(ms[i], T)})
Diff(ms, T) == SumOver(InvolvedIn(ms, T), ms, T)

Last(s) == s[Len(s)]

\* C2: a `stats?` line prints exactly `0 0 0` when the tokenization of the
\* remainder fails, yields no token, or yields a first token that is no key
\* of the team-name index; otherwise it prints `<wins> <losses> <signedDiff>`
\* of the team the index maps the name to, the differential always with an
\* explicit sign, `+` for zero.
C2_StatsLine ==
    [][\A line \in StatsLines : StatsQuery(line) =>
          LET out == Last(stdout')
              sp == StatsSplit(line)
              f == split(out)
          IN  /\ Len(stdout') = Len(stdout) + 1
              /\ IF sp.err \/ sp.toks = <<>> \/ sp.toks[1] \notin DOMAIN team_map
                 THEN out = <<"0", " ", "0", " ", "0">>
                 ELSE LET T == team_map[sp.toks[1]]
                          d == Diff(matches, T)
                      IN  /\ Len(f) = 3
                          /\ out = f[1] \o <<" ">> \o f[2] \o <<" ">> \o f[3]
                          /\ ~IntRaises(f[1]) /\ int(f[1]) = Wins(matches, T)
                          /\ ~IntRaises(f[2]) /\ int(f[2]) = Losses(matches, T)
                          /\ f[3][1] = (IF d >= 0 THEN "+" ELSE "-")
                          /\ ~IntRaises(Tail(f[3]))
                          /\ int(Tail(f[3])) = (IF d >= 0 THEN d ELSE -d)]_vars

\* C2 witness: a known team that plays in none of the matches printed
\* `0 0 +0`
C2_Witness ==
    /\ pc = "read_line"
    /\ nread = 1
    /\ matches # <<>>
    /\ \A i \in DOMAIN matches : matches[i].team1 = 1 /\ matches[i].team2 = 1
    /\ Range(team_map) = {2}
    /\ stdout # <<>>
    /\ Last(stdout) = <<"0", " ", "0", " ", "+", "0">>

\* the decimal literals of the non-negative integers
IsDecimal(tok) == tok # <<>> /\ \A i \in DOMAIN tok : tok[i] \in Range(DecimalDigits)

\* the line C3 says a `versus?` line prints
C3_Expected(line) ==
    LET parts == VersusParts(line)
    IN  IF Len(parts) # 2 \/ \E i \in DOMAIN parts : ~IsDecimal(parts[i]) THEN <<"0">>
        ELSE LET a == int(parts[1])
                 b == int(parts[2])
             IN  IF ~Found(a) \/ ~Found(b) THEN <<"0">>
                 ELSE IF a \notin DOMAIN player_team \/ b \notin DOMAIN player_team
                      THEN <<"0">>
                 ELSE str(Cardinality({i \in DOMAIN matches :
                            {matches[i].team1, matches[i].team2}
                                = {player_team[a], player_team[b]}}))

\* C3: every `versus?` line prints exactly one integer line: `0` unless the
\* remainder is two all-digit tokens, else `0` if a lookup of either player
\* reports not-found, else `0` if either player has no team in the
\* player-team index, otherwise the number of matches between the two teams.
C3_VersusLine ==
    [][\A line \in VersusLines, tr1 \in BOOLEAN, tr2 \in BOOLEAN :
          (\/ VersusQuery(line, tr1, tr2)
           \/ VersusTransportError(line, tr1, tr2)
           \/ VersusValueError(line))
              => stdout' = Append(stdout, C3_Expected(line))]_vars

\* C4: no failure raised while handling a query line aborts the dispatcher;
\* a transport error of a `versus?` lookup prints `0` and the next line is
\* read.
C4_DispatcherNeverAborts == pc # "crashed"

\* the player ids listed by some team
Listed(ts) == {p \in PlayerIds : \E i \in DOMAIN ts : \E j \in DOMAIN ts[i].players : ts[i].players[j] = p}

\* s without its leading and trailing whitespace
Trimmed(s) ==
    LET I == {i \in DOMAIN s : s[i] \notin Whitespace}
    IN  IF I = {} THEN <<>>
        ELSE SubSeq(s, CHOOSE i \in I : \A j \in I : i <= j,
                       CHOOSE i \in I : \A j \in I : i >= j)

\* trimmed name and trimmed surname joined by one space, an empty part omitted
NameOf(pl) ==
    LET n == Trimmed(pl.name)
        u == Trimmed(pl.surname)
    IN  IF n = <<>> THEN u ELSE IF u = <<>> THEN n ELSE n \o <<" ">> \o u

\* s comes strictly before t in code-point lexicographic order
Before(s, t) ==
    \E k \in 1..(Len(t)) :
        /\ k <= Len(s) + 1
        /\ SubSeq(s, 1, k - 1) = SubSeq(t, 1, k - 1)
        /\ (k = Len(s) + 1 \/ Ord(s[k]) < Ord(t[k]))

\* the names the roster is to hold
RosterNames ==
    {NameOf(server_players[p]) : p \in {q \in Listed(teams) : server_players[q].found}}
        \ {<<>>}

\* C5: the roster printed at start-up is exactly the set of the non-empty
\* full names of the fetched players that some team lists, without a
\* duplicate or an empty line, in strictly ascending order; it is therefore
\* the same list whatever the order in which the player ids are visited.
C5_Roster ==
    pc \in {"handle_queries", "read_line", "exit0"} =>
        /\ Range(stdout) = RosterNames
        /\ \A i \in DOMAIN stdout : stdout[i] # <<>>
        /\ \A i \in DOMAIN stdout : \A j \in DOMAIN stdout :
              i < j => Before(stdout[i], stdout[j])

\* C5 witness: three listed players, two with the same full name, one whose
\* name is a prefix of it, printed as two lines
C5_Witness ==
    /\ pc = "handle_queries"
    /\ Cardinality(Listed(teams)) = 3
    /\ \A p \in PlayerIds : server_players[p].found
    /\ server_players[10] # server_players[11]
    /\ stdout = << <<"a">>, <<"a", " ", "b">> >>

\* C6: a player fetch that fails during roster building, with a not-found
\* status or with a transport error, does not abort the run: once a player
\* has been requested the process does not exit with status 1 from start-up.
C6_PlayerFetchFailureSkipped ==
    pc = "exit1" => \A r \in requests : r[1] # "players"

\* C8: without a token, or when the matches or the teams cannot be fetched,
\* the process reports on stderr and exits non-zero, having read no input
\* line and written nothing to stdout; without a token nothing is fetched,
\* and after a failed matches fetch the teams are not requested.
C8_FatalStartup ==
    /\ ~token => requests = {} /\ pc \in {"main", "exit1"}
    /\ (\E i \in DOMAIN stderr : stderr[i] = "Failed to fetch matches")
          => pc = "exit1" /\ <<"teams", 0>> \notin requests
    /\ (<<"teams", 0>> \in requests /\ teams # server_teams) => pc = "exit1"
    /\ pc = "exit1" => stderr # <<>> /\ stdout = <<>> /\ nread = 0
    /\ stderr # <<>> /\ pc # "crashed" /\ nread = 0 => pc = "exit1"

\* C8 witness: the teams fetch failed after the matches were loaded
C8_Witness ==
    /\ pc = "exit1"
    /\ requests = {<<"matches", 0>>, <<"teams", 0>>}
    /\ matches # <<>>
    /\ server_teams # <<>>
    /\ stderr = <<"Failed to list players">>

\* what C7 says of one step of the dispatcher
C7_Step ==
    /\ (\E line \in BlankLines : Blank(line))
          => (stdout' = stdout /\ stderr' = stderr /\ pc' = "read_line")
    /\ (\E line \in OtherLines : Unrecognized(line))
          => (stdout' = stdout /\ Len(stderr') = Len(stderr) + 1 /\ pc' = "read_line")
    /\ (\/ \E line \in StatsLines : StatsQuery(line)
        \/ \E line \in VersusLines, tr1 \in BOOLEAN, tr2 \in BOOLEAN :
              \/ VersusQuery(line, tr1, tr2)
              \/ VersusTransportError(line, tr1, tr2)
              \/ VersusValueError(line))
          => /\ Len(stdout') = Len(stdout) + 1
             /\ SubSeq(stdout', 1, Len(stdout)) = stdout
             /\ stderr' = stderr
             /\ pc' = "read_line"

\* C7: once start-up has passed, stdout is the roster lines, all of them
\* written before the first input line is read, followed by one line for
\* each `stats?` or `versus?` line in input order; a blank line adds nothing
\* to either stream, any other line adds one notice to stderr and nothing to
\* stdout, and the dispatcher then reads the next line.
C7_OutputOrder ==
    /\ [](pc = "read_line" /\ nread = 0 =>
            Range(stdout) = RosterNames /\ Len(stdout) = Cardinality(RosterNames))
    /\ [][C7_Step]_vars

\* the line `versus? a b`
VersusLine(a, b) == VERSUS \o <<" ">> \o str(a) \o <<" ">> \o str(b)

LastListing(ts, p) ==
    CHOOSE i \in DOMAIN ts :
        /\ p \in Range(ts[i].players)
        /\ \A j \in DOMAIN ts : j > i => p \notin Range(ts[j].players)

\* the position in the team list of the last team named n
LastNamed(ts, n) ==
    CHOOSE i \in DOMAIN ts :
        /\ ts[i].name = n
        /\ \A j \in DOMAIN ts : j > i => ts[j].name # n

\* C10: the two indexes are built last-write-wins and stay fixed: a name maps
\* to the id of the last team of that name, a player id to the id of the last
\* team listing it; the keys of the player-team index are the listed player
\* ids; no query changes an index, the team list or the match list.
C10_Indexes ==
    pc \in {"read_line", "exit0", "crashed"} =>
        /\ teams = server_teams
        /\ matches = server_matches
        /\ DOMAIN team_map = {teams[i].name : i \in DOMAIN teams}
        /\ \A n \in DOMAIN team_map : team_map[n] = teams[LastNamed(teams, n)].id
        /\ DOMAIN player_team = Listed(teams)
        /\ \A p \in DOMAIN player_team : player_team[p] = teams[LastListing(teams, p)].id

\* C10 witness: two teams of one name and different ids both list player 11,
\* and a query has been answered
C10_Witness ==
    /\ pc = "read_line"
    /\ nread >= 1
    /\ Len(stdout) >= 2
    /\ Len(teams) = 2
    /\ teams[1].name = teams[2].name
    /\ teams[1].id # teams[2].id
    /\ 11 \in Range(teams[1].players) \cap Range(teams[2].players)
    /\ team_map[teams[1].name] = teams[2].id
    /\ player_team[11] = teams[2].id

=============================================================================
